---- MODULE Spec2Model ----
(***************************************************************************)
(* Model of the gitlab issue-creation command line tool.                   *)
(*                                                                         *)
(* The repository holds two builds of the program: src/main.go (the root   *)
(* command, without label/milestone handling) and src/unnamed/part_000     *)
(* (the later command, with label/milestone handling).  The variable       *)
(* `program` says which of the two is running.                             *)
(*                                                                         *)
(* Strings and byte slices are sequences of one-character strings, so that *)
(* strings.HasSuffix, strings.TrimSuffix, strings.SplitN and bytes.Equal   *)
(* are computed as the Go library computes them.                           *)
(***************************************************************************)
EXTENDS Integers, Sequences, FiniteSets, TLC

\* ------------------------------------------------------------------ bounds
\* number of local template files "<letter>.md" that may be on disk
MaxLocalFiles == 2
\* longest draft contents the editor may leave in the file
MaxContentLen == 4
\* number of labels / active milestones the project may have
MaxLabels == 2
MaxMilestones == 2
\* longest label list handed to setIssueLabelsMilestones in SpecSetIssue
MaxSetLabels == 2

\* ------------------------------------------------------------ the programs
RootProgram == "main.go"
IssueProgram == "part_000"
Programs == {RootProgram, IssueProgram}

\* ----------------------------------------------------------------- strings
NL == "\n"
\* the error value nil
Nil == "nil"

Letters == <<"a", "b", "c", "d", "e", "f", "g", "h">>
MdSuffix == <<".", "m", "d">>
TxtSuffix == <<".", "t", "x", "t">>
LocalTag == <<" ", "[", "l", "o", "c", "a", "l", "]">>
BlankName == <<"B", "L", "A", "N", "K">>
TemplatesPath == <<".", "g", "i", "t", "l", "a", "b", "/", "i", "s", "s", "u", "e",
                   "_", "t", "e", "m", "p", "l", "a", "t", "e", "s">>

\* strings.HasSuffix(s, suffix)
HasSuffix(s, suffix) ==
    /\ Len(s) >= Len(suffix)
    /\ SubSeq(s, Len(s) - Len(suffix) + 1, Len(s)) = suffix

\* strings.TrimSuffix(s, suffix)
TrimSuffix(s, suffix) ==
    IF HasSuffix(s, suffix) THEN SubSeq(s, 1, Len(s) - Len(suffix)) ELSE s

\* the file name of a repository path: what follows its last "/"
\* (RepositoryFiles.GetFile answers with file_name for the path asked)
RECURSIVE BaseFrom(_, _)
BaseFrom(path, i) ==
    IF i = 0 THEN path
    ELSE IF path[i] = "/" THEN SubSeq(path, i + 1, Len(path))
    ELSE BaseFrom(path, i - 1)
Base(path) == BaseFrom(path, Len(path))

\* the elements of seq at the positions in S, in seq's order
RECURSIVE Pick(_, _, _)
Pick(seq, S, i) ==
    IF i > Len(seq) THEN <<>>
    ELSE (IF i \in S THEN <<seq[i]>> ELSE <<>>) \o Pick(seq, S, i + 1)

\* all sequences over S of length at most n
SeqsUpTo(S, n) == UNION {[1..k -> S] : k \in 0..n}

\* -------------------------------------------------- the files of the model
\* Local template directory: "a.md", "b.md", ... and one file that is no
\* template, in the name order ioutil.ReadDir returns.
LocalCandidates ==
    [i \in 1..MaxLocalFiles |-> <<Letters[i]>> \o MdSuffix] \o << <<"n">> \o TxtSuffix >>

\* Remote .gitlab/issue_templates tree: file names the listing may hold.
RemoteCandidates ==
    << BlankName \o MdSuffix,
       <<"a">> \o LocalTag \o MdSuffix,
       <<"a">> \o MdSuffix,
       <<"x">> \o TxtSuffix >>

\* what a template file holds (fixed per file name)
FileContent(name) ==
    CASE name[1] = "a" -> <<"T">>
      [] name[1] = "b" -> <<NL, "b">>
      [] name[1] = "B" -> <<"b", NL>>
      [] OTHER -> <<>>

\* file.Content as sent by the hosting service: base64 text, well formed or not
Encoded(bytes) == [b64 |-> TRUE, payload |-> bytes]
Malformed == [b64 |-> FALSE, payload |-> <<>>]
\* base64.StdEncoding.DecodeString
DecodeString(wire) ==
    IF wire.b64 THEN [val |-> wire.payload, err |-> Nil]
    ELSE [val |-> <<>>, err |-> "illegal base64 data"]

\* ------------------------------------------------------- template listing
\* issueTemplate{Name, Content}
Template(name, content) == [Name |-> name, Content |-> content]
BlankTemplate == Template(BlankName, <<>>)

\* the name given to the template of a local file
LocalTemplateName_Untagged(fileName) == TrimSuffix(fileName, MdSuffix)
LocalTemplateName(fileName) == TrimSuffix(fileName, MdSuffix) \o LocalTag

\* the name given to the template of a remote file
RemoteTemplateName(fileName) == TrimSuffix(fileName, MdSuffix)

\* whether a directory entry / tree node is taken as a template
IsTemplateFile(name) == HasSuffix(name, MdSuffix)

\* The loop of getLocalIssueTemplates over files[i..]; readErrAt is the
\* position of the file ioutil.ReadFile fails on (0: none).
RECURSIVE LocalLoop(_, _, _, _)
LocalLoop(files, i, acc, readErrAt) ==
    IF i > Len(files) THEN [val |-> acc, err |-> Nil]
    ELSE IF ~IsTemplateFile(files[i]) THEN LocalLoop(files, i + 1, acc, readErrAt)
    ELSE IF readErrAt = i THEN [val |-> acc, err |-> "could not read file"]
    ELSE LocalLoop(files, i + 1,
                   Append(acc, Template(LocalTemplateName(files[i]), FileContent(files[i]))),
                   readErrAt)

\* what ioutil.ReadDir hands back: the entries, or nil with an error
ReadDir(dir, readDirErr) ==
    IF readDirErr THEN [val |-> <<>>, err |-> "readdir failed"]
    ELSE [val |-> dir, err |-> Nil]

\* getLocalIssueTemplates.  io = [homeErr, mkdirErr, readDirErr, readErrAt];
\* dir is the directory's entries.  The error of ioutil.ReadDir is assigned
\* and never looked at: the loop runs over whatever entries came back.
getLocalIssueTemplates(dir, io) ==
    IF io.homeErr THEN [val |-> <<>>, err |-> "could not get home-dir"]
    ELSE IF io.mkdirErr THEN [val |-> <<>>, err |-> "couuld not make dir"]
    ELSE LocalLoop(ReadDir(dir, io.readDirErr).val, 1, <<>>, io.readErrAt)

\* a tree node of the remote listing
Node(name) == [Path |-> TemplatesPath \o <<"/">> \o name]

\* The loop of getIssueTemplates over nodes[i..]; failAt is the position of
\* the node whose fetch (failKind "get") or decoding ("decode") fails.
RECURSIVE RemoteLoop(_, _, _, _, _)
RemoteLoop(nodes, i, acc, failAt, failKind) ==
    IF i > Len(nodes) THEN [val |-> acc, err |-> Nil]
    ELSE IF ~IsTemplateFile(nodes[i].Path) THEN RemoteLoop(nodes, i + 1, acc, failAt, failKind)
    ELSE IF failAt = i /\ failKind = "get"
         THEN [val |-> acc, err |-> "error fetching file"]
    ELSE LET file == [FileName |-> Base(nodes[i].Path),
                      Content |-> IF failAt = i THEN Malformed
                                  ELSE Encoded(FileContent(Base(nodes[i].Path)))]
             content == DecodeString(file.Content)
         IN  IF content.err # Nil
             THEN [val |-> acc, err |-> "error decoding file"]
             ELSE RemoteLoop(nodes, i + 1,
                             Append(acc, Template(RemoteTemplateName(file.FileName), content.val)),
                             failAt, failKind)

\* getIssueTemplates.  local is the result of getLocalIssueTemplates, nodes
\* the remote listing, io = [listErr, failAt, failKind].  (src/main.go
\* appends the local templates before it looks at the error, part_000 after;
\* the list returned beside an error differs, main discards it.)
getIssueTemplates(prog, local, nodes, io) ==
    IF local.err # Nil
    THEN [val |-> IF prog = RootProgram THEN <<BlankTemplate>> \o local.val
                  ELSE <<BlankTemplate>>,
          err |-> "could not get local issue templates"]
    ELSE IF io.listErr
    THEN [val |-> <<BlankTemplate>> \o local.val,
          err |-> "error fetching files from issue_templates"]
    ELSE RemoteLoop(nodes, 1, <<BlankTemplate>> \o local.val, io.failAt, io.failKind)

\* ------------------------------------------------------ editor resolution
\* What getEditor reads: three environment variables ("" when unset, which
\* os.Getenv cannot tell from set-but-empty) and the configuration that
\* repository.ConfigScoped(config.GlobalScope) answers with.
GitConfigs ==
    { [err |-> TRUE,  core |-> FALSE, hasEditor |-> FALSE, editor |-> ""],
      [err |-> FALSE, core |-> FALSE, hasEditor |-> FALSE, editor |-> ""],
      [err |-> FALSE, core |-> TRUE,  hasEditor |-> FALSE, editor |-> ""],
      [err |-> FALSE, core |-> TRUE,  hasEditor |-> TRUE,  editor |-> ""],
      [err |-> FALSE, core |-> TRUE,  hasEditor |-> TRUE,  editor |-> "core-ed"] }
EditorEnvs ==
    [GIT_EDITOR : {"", "git-ed"}, cfg : GitConfigs, VISUAL : {"", "visual-ed"},
     EDITOR : {"", "editor-ed"}]
getEditor_EditorFirst(env) ==
    IF env.GIT_EDITOR # "" THEN [val |-> env.GIT_EDITOR, err |-> Nil]
    ELSE IF env.cfg.err THEN [val |-> "", err |-> "could not get git config"]
    ELSE IF env.cfg.core /\ env.cfg.hasEditor THEN [val |-> env.cfg.editor, err |-> Nil]
    ELSE IF env.EDITOR # "" THEN [val |-> env.EDITOR, err |-> Nil]
    ELSE IF env.VISUAL # "" THEN [val |-> env.VISUAL, err |-> Nil]
    ELSE [val |-> "vi", err |-> Nil]

getEditor(env) ==
    IF env.GIT_EDITOR # "" THEN [val |-> env.GIT_EDITOR, err |-> Nil]
    ELSE IF env.cfg.err THEN [val |-> "", err |-> "could not get git config"]
    ELSE IF env.cfg.core /\ env.cfg.hasEditor THEN [val |-> env.cfg.editor, err |-> Nil]
    ELSE IF env.VISUAL # "" THEN [val |-> env.VISUAL, err |-> Nil]
    ELSE IF env.EDITOR # "" THEN [val |-> env.EDITOR, err |-> Nil]
    ELSE [val |-> "vi", err |-> Nil]

\* ------------------------------------------------------------ issue draft
\* the bytes the editor may leave in the draft file
Bytes == {NL, "T", "b"}
Contents == SeqsUpTo(Bytes, MaxContentLen)

\* buf: two newlines, then the template's content
Prepopulated(template) == <<NL, NL>> \o template.Content

\* position of the first newline of s at or after i (0: none)
RECURSIVE IndexNL(_, _)
IndexNL(s, i) ==
    IF i > Len(s) THEN 0 ELSE IF s[i] = NL THEN i ELSE IndexNL(s, i + 1)

\* strings.SplitN(s, "\n", 2)
SplitN2_Last(s) ==
    LET RECURSIVE LastNL(_)
        LastNL(i) == IF i = 0 THEN 0 ELSE IF s[i] = NL THEN i ELSE LastNL(i - 1)
        k == LastNL(Len(s))
    IN  IF k = 0 THEN <<s>> ELSE <<SubSeq(s, 1, k - 1), SubSeq(s, k + 1, Len(s))>>
SplitN2(s) ==
    LET k == IndexNL(s, 1)
    IN  IF k = 0 THEN <<s>> ELSE <<SubSeq(s, 1, k - 1), SubSeq(s, k + 1, Len(s))>>

ErrUnchanged == "content of issue has not been changed"
ErrEmptyContent == "empty issue content"
ErrEmptyTitle == "empty issue title"

\* Lines 230-242 of createIssueFromTemplate: the checks on the bytes read
\* back, and the options of the CreateIssue call when they pass.
ParseDraft_NoCompare(issueContent, buf) ==
    LET issueSplit == SplitN2(issueContent)
    IN  IF Len(issueSplit) = 0 THEN [err |-> ErrEmptyContent, opts |-> <<>>]
        ELSE IF Len(issueSplit[1]) = 0 THEN [err |-> ErrEmptyTitle, opts |-> <<>>]
        ELSE [err |-> Nil,
              opts |-> << [Title |-> issueSplit[1],
                           Description |-> IF Len(issueSplit) = 1 THEN <<>>
                                           ELSE issueSplit[2]] >>]
ParseDraft_NoTitleCheck(issueContent, buf) ==
    LET issueSplit == SplitN2(issueContent)
    IN  IF issueContent = buf THEN [err |-> ErrUnchanged, opts |-> <<>>]
        ELSE IF Len(issueSplit) = 0 THEN [err |-> ErrEmptyContent, opts |-> <<>>]
        ELSE [err |-> Nil,
              opts |-> << [Title |-> issueSplit[1],
                           Description |-> IF Len(issueSplit) = 1 THEN <<>>
                                           ELSE issueSplit[2]] >>]
ParseDraft(issueContent, buf) ==
    LET issueSplit == SplitN2(issueContent)
    IN  IF issueContent = buf THEN [err |-> ErrUnchanged, opts |-> <<>>]
        ELSE IF Len(issueSplit) = 0 THEN [err |-> ErrEmptyContent, opts |-> <<>>]
        ELSE IF Len(issueSplit[1]) = 0 THEN [err |-> ErrEmptyTitle, opts |-> <<>>]
        ELSE [err |-> Nil,
              opts |-> << [Title |-> issueSplit[1],
                           Description |-> IF Len(issueSplit) = 1 THEN <<>>
                                           ELSE issueSplit[2]] >>]

\* ------------------------------------------------- labels and milestones
Label(id, name) == [ID |-> id, Name |-> name, Description |-> "d"]
Milestone(id, name) == [ID |-> id, Name |-> name]
noLabels == << Label(0, "non-existant") >>
noMilestone == Milestone(0, "non-existant")

LabelNames == <<"bug", "feature", "docs", "chore", "infra">>
MilestoneNames == <<"v1", "v2", "v3", "v4", "v5">>
\* the project's labels and active milestones, ids starting at 1
ProjectLabels(n) == [i \in 1..n |-> Label(i, LabelNames[i])]
ProjectMilestones(n) == [i \in 1..n |-> Milestone(i, MilestoneNames[i])]

\* the loop of setIssueLabelsMilestones over labels[i..]
RECURSIVE LabelNamesOf_All(_, _)
LabelNamesOf_All(labels, i) ==
    IF i > Len(labels) THEN <<>>
    ELSE <<labels[i].Name>> \o LabelNamesOf_All(labels, i + 1)
RECURSIVE LabelNamesOf(_, _)
LabelNamesOf(labels, i) ==
    IF i > Len(labels) THEN <<>>
    ELSE (IF labels[i].ID # 0 THEN <<labels[i].Name>> ELSE <<>>)
         \o LabelNamesOf(labels, i + 1)

\* gitlab.UpdateIssueOptions built by setIssueLabelsMilestones; MilestoneID
\* is a pointer: <<>> when nil, <<id>> when set
UpdateOptions(labels, milestone) ==
    [AddLabels |-> LabelNamesOf(labels, 1),
     MilestoneID |-> IF milestone.ID # 0 THEN <<milestone.ID>> ELSE <<>>]

\* ------------------------------------------------------------------ state
VARIABLES
    program,            \* which build runs: RootProgram or IssueProgram
    pc,                 \* the statement the run is at
    world,              \* <<>> or <<w>>: the files and failures getIssueTemplates met
    templates,          \* main: templates
    err,                \* the error value last returned to the statement at pc
    template,           \* templates[idx], the template handed to createIssueFromTemplate
    labels,             \* main: labels
    labelsFailed,       \* whether the label listing failed
    milestones,         \* main: milestones
    milestonesFailed,   \* whether the milestone listing failed
    fileOnDisk,         \* whether the temporary draft file exists
    draft,              \* the bytes of the draft file
    deferRemove,        \* src/main.go: defer os.Remove(file.Name()) is registered
    removeCalled,       \* os.Remove(file.Name()) has been called
    buf,                \* createIssueFromTemplate: buf.Bytes()
    editorEnv,          \* <<>> or <<env>>: what getEditor read
    editor,             \* createIssueFromTemplate: editor
    issueContent,       \* createIssueFromTemplate: issueContent
    createCall,         \* <<>> or <<options>>: the CreateIssue call in flight
    createCalled,       \* a CreateIssue call was made in this run
    issueCreated,       \* the hosting service created the issue
    loggedCreated,      \* main logged "created: ..."
    milestoneCancelled, \* the user cancelled the milestone selector
    selectedMilestone,  \* main: selectedMilestone
    selectedLabels,     \* main: selectedLabels
    updateCall,         \* <<>> or <<options>>: the UpdateIssue call made
    fatal               \* "" or the message of log.Fatalf

vars == <<program, pc, world, templates, err, template, labels, labelsFailed, milestones,
          milestonesFailed, fileOnDisk, draft, deferRemove, removeCalled, buf, editorEnv,
          editor, issueContent, createCall, createCalled, issueCreated, loggedCreated,
          milestoneCancelled, selectedMilestone, selectedLabels, updateCall, fatal>>

\* groups of variables, for UNCHANGED
tmplVars == <<world, templates, template>>
listVars == <<labels, labelsFailed, milestones, milestonesFailed>>
fileVars == <<fileOnDisk, draft, deferRemove, removeCalled>>
editVars == <<buf, editorEnv, editor, issueContent>>
callVars == <<createCall, createCalled, issueCreated>>
tailVars == <<loggedCreated, milestoneCancelled, selectedMilestone, selectedLabels, updateCall>>

\* the state common to every start: nothing has run yet
Blank(prog, at) ==
    /\ program = prog
    /\ pc = at
    /\ world = <<>>
    /\ templates = <<>>
    /\ err = Nil
    /\ template = BlankTemplate
    /\ labels = <<>>
    /\ labelsFailed = FALSE
    /\ milestones = <<>>
    /\ milestonesFailed = FALSE
    /\ fileOnDisk = FALSE
    /\ draft = <<>>
    /\ deferRemove = FALSE
    /\ removeCalled = FALSE
    /\ buf = <<>>
    /\ editorEnv = <<>>
    /\ editor = ""
    /\ issueContent = <<>>
    /\ createCall = <<>>
    /\ createCalled = FALSE
    /\ issueCreated = FALSE
    /\ loggedCreated = FALSE
    /\ milestoneCancelled = FALSE
    /\ updateCall = <<>>
    /\ fatal = ""

\* main, once the project is found (line 300)
Init ==
    /\ \E prog \in Programs : Blank(prog, "getIssueTemplates")
    /\ selectedMilestone = noMilestone
    /\ selectedLabels = noLabels

\* log.Fatalf
Fatal(msg) ==
    /\ pc' = "fatal"
    /\ fatal' = msg

\* --------------------------------------------------------- main: templates
\* the failures getLocalIssueTemplates may meet in directory dir, one at a time
LocalIOs(dir) ==
    LET ok == [homeErr |-> FALSE, mkdirErr |-> FALSE, readDirErr |-> FALSE, readErrAt |-> 0]
    IN  {ok, [ok EXCEPT !.homeErr = TRUE], [ok EXCEPT !.mkdirErr = TRUE],
         [ok EXCEPT !.readDirErr = TRUE]}
        \cup {[ok EXCEPT !.readErrAt = i] : i \in {j \in 1..Len(dir) : HasSuffix(dir[j], MdSuffix)}}

\* the failures the remote part of getIssueTemplates may meet, one at a time
RemoteIOs(nodes) ==
    LET ok == [listErr |-> FALSE, failAt |-> 0, failKind |-> "none"]
    IN  {ok, [ok EXCEPT !.listErr = TRUE]}
        \cup {[ok EXCEPT !.failAt = i, !.failKind = k] :
                i \in {j \in 1..Len(nodes) : HasSuffix(nodes[j].Path, MdSuffix)},
                k \in {"get", "decode"}}

LocalDirs == {Pick(LocalCandidates, S, 1) : S \in SUBSET (1..Len(LocalCandidates))}
RemoteTrees ==
    {[i \in 1..Len(names) |-> Node(names[i])] :
        names \in {Pick(RemoteCandidates, S, 1) : S \in SUBSET (1..Len(RemoteCandidates))}}

\* templates, err := client.getIssueTemplates(project)
MainGetIssueTemplates ==
    /\ pc = "getIssueTemplates"
    /\ \E dir \in LocalDirs : \E lio \in LocalIOs(dir) :
         LET local == getLocalIssueTemplates(dir, lio) IN
         \E nodes \in (IF local.err = Nil THEN RemoteTrees ELSE {<<>>}) :
         \E rio \in (IF local.err = Nil THEN RemoteIOs(nodes)
                     ELSE {[listErr |-> FALSE, failAt |-> 0, failKind |-> "none"]}) :
           LET r == getIssueTemplates(program, local, nodes, rio) IN
           /\ templates' = r.val
           /\ err' = r.err
           /\ world' = << [dir |-> dir, lio |-> lio, nodes |-> nodes, rio |-> rio] >>
    /\ pc' = "templatesReturned"
    /\ UNCHANGED <<program, template, listVars, fileVars, editVars, callVars, tailVars, fatal>>

\* if err != nil { log.Fatalf(...) }; if len(templates) == 0 { log.Println(...) }
MainCheckTemplates ==
    /\ pc = "templatesReturned"
    /\ IF err # Nil THEN Fatal("Failed to get issue templates for project")
       ELSE pc' = "selectTemplate" /\ UNCHANGED fatal
    /\ UNCHANGED <<program, tmplVars, err, listVars, fileVars, editVars, callVars, tailVars>>

\* idx, err := fuzzyfinder.Find(templates, ...): an index, or the user aborts.
\* From here on main reads templates only as templates[idx].
MainSelectTemplate ==
    /\ pc = "selectTemplate"
    /\ \/ \E idx \in 1..Len(templates) :
            /\ template' = templates[idx]
            /\ err' = Nil
            /\ pc' = IF program = IssueProgram THEN "getIssueLabels" ELSE "createIssue"
            /\ UNCHANGED fatal
       \/ /\ err' = "abort"
          /\ Fatal("Failed to select template")
          /\ UNCHANGED template
    /\ world' = <<>>
    /\ templates' = <<>>
    /\ UNCHANGED <<program, listVars, fileVars, editVars, callVars, tailVars>>

\* ----------------------------------------------- main: labels, milestones
\* labels, err := client.getIssueLabels(project), with a failure made fatal
MainGetIssueLabels_Abort ==
    /\ pc = "getIssueLabels"
    /\ \/ /\ \E n \in 0..MaxLabels : labels' = ProjectLabels(n)
          /\ labelsFailed' = FALSE
          /\ err' = Nil
          /\ pc' = "getIssueMilestones"
          /\ UNCHANGED fatal
       \/ /\ labels' = <<>>
          /\ labelsFailed' = TRUE
          /\ err' = "list labels failed"
          /\ Fatal("Failed to get issue labels for project")
    /\ UNCHANGED <<program, tmplVars, milestones, milestonesFailed, fileVars, editVars,
                   callVars, tailVars>>

\* labels, err := client.getIssueLabels(project): a failure is logged only
MainGetIssueLabels ==
    /\ pc = "getIssueLabels"
    /\ \/ \E n \in 0..MaxLabels :
            labels' = ProjectLabels(n) /\ labelsFailed' = FALSE /\ err' = Nil
       \/ labels' = <<>> /\ labelsFailed' = TRUE /\ err' = "list labels failed"
    /\ pc' = "getIssueMilestones"
    /\ UNCHANGED <<program, tmplVars, milestones, milestonesFailed, fileVars, editVars,
                   callVars, tailVars, fatal>>

\* milestones, err := client.getIssueMilestones(project): a failure is logged only
MainGetIssueMilestones ==
    /\ pc = "getIssueMilestones"
    /\ \/ \E n \in 0..MaxMilestones :
            milestones' = ProjectMilestones(n) /\ milestonesFailed' = FALSE /\ err' = Nil
       \/ milestones' = <<>> /\ milestonesFailed' = TRUE /\ err' = "list milestones failed"
    /\ pc' = "createIssue"
    /\ UNCHANGED <<program, tmplVars, labels, labelsFailed, fileVars, editVars, callVars,
                   tailVars, fatal>>

\* ------------------------------------------------ createIssueFromTemplate
\* return issue, err
Exit(e) ==
    /\ err' = e
    /\ pc' = "return"

\* file, err := ioutil.TempFile(...)   (src/main.go goes on to
\* defer os.Remove(file.Name()); part_000 has no such defer)
DeferRegistered(prog) == prog = RootProgram

CreateTempFile ==
    /\ pc = "createIssue"
    /\ \/ /\ fileOnDisk' = TRUE
          /\ deferRemove' = DeferRegistered(program)
          /\ pc' = "write"
          /\ err' = Nil
       \/ /\ Exit("could not create temporary issue-description file")
          /\ UNCHANGED <<fileOnDisk, deferRemove>>
    /\ UNCHANGED <<program, tmplVars, listVars, draft, removeCalled, editVars, callVars,
                   tailVars, fatal>>

\* buf := "\n\n" + template.Content; file.Write(buf.Bytes())
WriteTemplate ==
    /\ pc = "write"
    /\ buf' = Prepopulated(template)
    /\ \/ draft' = buf' /\ pc' = "sync" /\ err' = Nil
       \/ Exit("could not prepopulate template") /\ UNCHANGED draft
    /\ UNCHANGED <<program, tmplVars, listVars, fileOnDisk, deferRemove, removeCalled,
                   editorEnv, editor, issueContent, callVars, tailVars, fatal>>

\* file.Sync()
SyncFile ==
    /\ pc = "sync"
    /\ \/ pc' = "getEditor" /\ err' = Nil
       \/ Exit("could not sync file to disk")
    /\ UNCHANGED <<program, tmplVars, listVars, fileVars, editVars, callVars, tailVars,
                   fatal>>

\* editor, err := getEditor(repository)
GetEditor ==
    /\ pc = "getEditor"
    /\ \E env \in EditorEnvs :
         LET r == getEditor(env) IN
         /\ editorEnv' = <<env>>
         /\ editor' = r.val
         /\ IF r.err # Nil THEN Exit("could not get editor")
            ELSE pc' = "run" /\ err' = Nil
    /\ UNCHANGED <<program, tmplVars, listVars, fileVars, buf, issueContent, callVars,
                   tailVars, fatal>>

\* cmd.Run(): the editor leaves some bytes in the draft file and exits; an
\* empty command cannot be started.  editor is not read after this.
RunEditor ==
    /\ pc = "run"
    /\ \E content \in Contents : draft' = content
    /\ \/ editor # "" /\ pc' = "read" /\ err' = Nil
       \/ Exit("error running editor")
    /\ editorEnv' = <<>>
    /\ editor' = ""
    /\ UNCHANGED <<program, tmplVars, listVars, fileOnDisk, deferRemove, removeCalled, buf,
                   issueContent, callVars, tailVars, fatal>>

\* issueContent, err := ioutil.ReadFile(file.Name())
ReadBack ==
    /\ pc = "read"
    /\ \/ issueContent' = draft /\ pc' = "parse" /\ err' = Nil
       \/ Exit("could not read file") /\ UNCHANGED issueContent
    /\ UNCHANGED <<program, tmplVars, listVars, fileVars, buf, editorEnv, editor, callVars,
                   tailVars, fatal>>

\* where createIssueFromTemplate goes once CreateIssue has succeeded:
\* part_000 removes the file (line 247), src/main.go returns issue, nil
AfterCreate(prog) == IF prog = IssueProgram THEN "remove" ELSE "return"

\* lines 230-246: the checks on issueContent, then Issues.CreateIssue
CheckAndCreate ==
    /\ pc = "parse"
    /\ LET r == ParseDraft(issueContent, buf) IN
       IF r.err # Nil
       THEN Exit(r.err) /\ UNCHANGED callVars
       ELSE /\ createCall' = r.opts
            /\ createCalled' = TRUE
            /\ \/ issueCreated' = TRUE /\ err' = Nil /\ pc' = AfterCreate(program)
               \/ Exit("could not create gitlab issue") /\ UNCHANGED issueCreated
    /\ UNCHANGED <<program, tmplVars, listVars, fileVars, editVars, tailVars, fatal>>

\* err = os.Remove(file.Name()); return issue, err   (part_000)
RemoveFile ==
    /\ pc = "remove"
    /\ removeCalled' = TRUE
    /\ \/ fileOnDisk' = FALSE /\ draft' = <<>> /\ Exit(Nil)
       \/ Exit("remove failed") /\ UNCHANGED <<fileOnDisk, draft>>
    /\ UNCHANGED <<program, tmplVars, listVars, deferRemove, editVars, callVars, tailVars,
                   fatal>>

\* The return to main: the deferred os.Remove of src/main.go runs (its error
\* is dropped), and the function's locals are gone.
ReturnFromCreate ==
    /\ pc = "return"
    /\ IF deferRemove
       THEN /\ removeCalled' = TRUE
            /\ \/ fileOnDisk' = FALSE /\ draft' = <<>>
               \/ UNCHANGED <<fileOnDisk, draft>>
       ELSE UNCHANGED <<fileOnDisk, draft, removeCalled>>
    /\ deferRemove' = FALSE
    /\ buf' = <<>>
    /\ editorEnv' = <<>>
    /\ editor' = ""
    /\ issueContent' = <<>>
    /\ createCall' = <<>>
    /\ pc' = "createReturned"
    /\ UNCHANGED <<program, tmplVars, err, listVars, createCalled, issueCreated, tailVars,
                   fatal>>

\* ------------------------------------------------ main: after the creation
\* if err != nil { log.Fatalf("could not create issue: %s", err) }
\* log.Printf("created: %s", issue.WebURL)
MainCreateReturned ==
    /\ pc = "createReturned"
    /\ IF err # Nil
       THEN Fatal("could not create issue") /\ UNCHANGED loggedCreated
       ELSE /\ loggedCreated' = TRUE
            /\ pc' = IF program = IssueProgram THEN "selectMilestone" ELSE "done"
            /\ UNCHANGED fatal
    /\ UNCHANGED <<program, tmplVars, err, listVars, fileVars, editVars, callVars,
                   milestoneCancelled, selectedMilestone, selectedLabels, updateCall>>

\* the index fuzzyfinder.Find leaves in milestoneIdx when the user aborts:
\* the int beside the discarded error, 0 (the first element)
AbortedIndex == 1

\* selectedMilestone := noMilestone; if len(milestones) > 0 { milestoneIdx, _ :=
\* fuzzyfinder.Find(...); selectedMilestone = milestones[milestoneIdx] }
MainSelectMilestone ==
    /\ pc = "selectMilestone"
    /\ IF Len(milestones) > 0
       THEN \/ \E idx \in 1..Len(milestones) :
                 selectedMilestone' = milestones[idx] /\ milestoneCancelled' = FALSE
            \/ selectedMilestone' = milestones[AbortedIndex] /\ milestoneCancelled' = TRUE
       ELSE selectedMilestone' = noMilestone /\ UNCHANGED milestoneCancelled
    /\ pc' = "selectLabels"
    /\ UNCHANGED <<program, tmplVars, err, listVars, fileVars, editVars, callVars,
                   loggedCreated, selectedLabels, updateCall, fatal>>

\* selectedLabels := noLabels; if len(labels) > 0 { labelIdxs, err :=
\* fuzzyfinder.FindMulti(...); ... }: the chosen labels, or on abort noLabels
\* followed by labels[idx] for the (no) indexes that came with the error
MainSelectLabels ==
    /\ pc = "selectLabels"
    /\ IF Len(labels) > 0
       THEN \/ \E S \in SUBSET (1..Len(labels)) :
                 selectedLabels' = Pick(labels, S, 1) /\ err' = Nil
            \/ selectedLabels' = noLabels /\ err' = "abort"
       ELSE selectedLabels' = noLabels /\ UNCHANGED err
    /\ pc' = "setIssue"
    /\ UNCHANGED <<program, tmplVars, listVars, fileVars, editVars, callVars, loggedCreated,
                   milestoneCancelled, selectedMilestone, updateCall, fatal>>

\* err = client.setIssueLabelsMilestones(project, issue, selectedLabels,
\* selectedMilestone): builds the options and calls Issues.UpdateIssue
SetIssueLabelsMilestones ==
    /\ pc = "setIssue"
    /\ updateCall' = << UpdateOptions(selectedLabels, selectedMilestone) >>
    /\ \E e \in {Nil, "update failed"} : err' = e
    /\ pc' = "updateReturned"
    /\ UNCHANGED <<program, tmplVars, listVars, fileVars, editVars, callVars, loggedCreated,
                   milestoneCancelled, selectedMilestone, selectedLabels, fatal>>

\* if err != nil { log.Fatalf("could not add labels/milestones to issue: %s", err) }
MainUpdateReturned ==
    /\ pc = "updateReturned"
    /\ IF err # Nil THEN Fatal("could not add labels/milestones to issue")
       ELSE pc' = "done" /\ UNCHANGED fatal
    /\ UNCHANGED <<program, tmplVars, err, listVars, fileVars, editVars, callVars, tailVars>>

\* ---------------------------------------------------------- specifications
Next ==
    \/ MainGetIssueTemplates
    \/ MainCheckTemplates
    \/ MainSelectTemplate
    \/ MainGetIssueLabels
    \/ MainGetIssueMilestones
    \/ CreateTempFile
    \/ WriteTemplate
    \/ SyncFile
    \/ GetEditor
    \/ RunEditor
    \/ ReadBack
    \/ CheckAndCreate
    \/ RemoveFile
    \/ ReturnFromCreate
    \/ MainCreateReturned
    \/ MainSelectMilestone
    \/ MainSelectLabels
    \/ SetIssueLabelsMilestones
    \/ MainUpdateReturned

\* a run of either program
Spec == Init /\ [][Next]_vars

\* setIssueLabelsMilestones on its own, over every label list and milestone
\* (the sentinels and labels with id 0 among real ones included)
SetLabelValues == {Label(id, name) : id \in 0..2, name \in {"bug", "non-existant"}}
SetMilestoneValues == {noMilestone} \cup {Milestone(id, "v") : id \in 1..2}

InitSetIssue ==
    /\ Blank(IssueProgram, "setIssue")
    /\ selectedLabels \in SeqsUpTo(SetLabelValues, MaxSetLabels)
    /\ selectedMilestone \in SetMilestoneValues

NextSetIssue ==
    \/ SetIssueLabelsMilestones
    \/ MainUpdateReturned

SpecSetIssue == InitSetIssue /\ [][NextSetIssue]_vars

\* ------------------------------------------------------------- properties
\* the draft file has been created in this run (it leaves the disk only
\* through os.Remove)
DraftCreated == fileOnDisk \/ removeCalled

\* createIssueFromTemplate has returned an error to main
CreateFailed == pc \in {"createReturned", "fatal"} /\ err # Nil /\ ~loggedCreated

\* C1: once the temporary draft file exists, it is still on disk after every
\* failing exit of createIssueFromTemplate, and os.Remove is called on it only
\* after the CreateIssue call has returned success.
C1_DraftSurvivesFailure ==
    /\ (DraftCreated /\ CreateFailed) => fileOnDisk
    /\ removeCalled => issueCreated

\* The same statement for the part_000 build alone, where it holds.
DraftSurvivesFailure_IssueProgram ==
    program = IssueProgram => C1_DraftSurvivesFailure

\* C2: when the bytes read back equal the bytes written (two newlines, then
\* the template's content), createIssueFromTemplate returns the "content of
\* issue has not been changed" error, and a run that got this error has made
\* no CreateIssue call.
C2_UnchangedRejected ==
    /\ [][(pc = "parse" /\ issueContent = buf)
            => (pc' = "return" /\ err' = ErrUnchanged /\ ~createCalled')]_vars
    /\ [](err = ErrUnchanged
            => (~createCalled /\ ~issueCreated /\ createCall = <<>>
                /\ pc \in {"return", "createReturned", "fatal"}))

\* C2 witness: the BLANK template's two newlines came back untouched
C2_Witness ==
    /\ pc = "return"
    /\ err = ErrUnchanged
    /\ template.Content = <<>>
    /\ issueContent = <<NL, NL>>

\* the first line of content is empty: content is empty or starts with a newline
FirstLineEmpty(content) == content = <<>> \/ content[1] = NL

\* C3: an edited draft (one that differs from the bytes written) whose first
\* line is empty makes createIssueFromTemplate return the "empty issue title"
\* error, and a run that got this error makes no CreateIssue and no
\* UpdateIssue call.
C3_EmptyTitleRejected ==
    /\ [][(pc = "parse" /\ issueContent # buf /\ FirstLineEmpty(issueContent))
            => (pc' = "return" /\ err' = ErrEmptyTitle /\ ~createCalled')]_vars
    /\ [](err = ErrEmptyTitle
            => (~createCalled /\ ~issueCreated /\ createCall = <<>> /\ updateCall = <<>>
                /\ pc \in {"return", "createReturned", "fatal"}))

\* C3 witness: text was typed on the second line, the first blank line was
\* left as written
C3_Witness ==
    /\ pc = "return"
    /\ err = ErrEmptyTitle
    /\ issueContent = <<NL, "T">>
    /\ buf = <<NL, NL>>

\* s holds no newline
NoNewline(s) == \A i \in 1..Len(s) : s[i] # NL

\* C4: the CreateIssue call gets as title the text before the first newline of
\* the draft and as description everything after that newline, unmodified; a
\* draft without newline gives the empty description.
C4_TitleDescriptionSplit ==
    createCall # <<>> =>
        LET o == createCall[1] IN
        /\ Len(o.Title) > 0
        /\ NoNewline(o.Title)
        /\ IF NoNewline(issueContent)
           THEN o.Title = issueContent /\ o.Description = <<>>
           ELSE o.Title \o <<NL>> \o o.Description = issueContent
        /\ (issueContent = <<"T", NL, NL, "b">>
               => o.Title = <<"T">> /\ o.Description = <<NL, "b">>)

\* C4 witness: the draft "T\n\nb" went out in a CreateIssue call
C4_Witness ==
    /\ createCall # <<>>
    /\ issueContent = <<"T", NL, NL, "b">>

\* the sources of the editor in order of precedence, each with whether it
\* provides a value
EditorSources(env) ==
    << [set |-> env.GIT_EDITOR # "", val |-> env.GIT_EDITOR],
       [set |-> env.cfg.core /\ env.cfg.hasEditor, val |-> env.cfg.editor],
       [set |-> env.VISUAL # "", val |-> env.VISUAL],
       [set |-> env.EDITOR # "", val |-> env.EDITOR],
       [set |-> TRUE, val |-> "vi"] >>
HighestPrecedence(env) ==
    LET src == EditorSources(env)
        first == CHOOSE i \in 1..Len(src) : src[i].set /\ \A j \in 1..(i - 1) : ~src[j].set
    IN  src[first].val

\* C5: the editor getEditor returns is the value of the first source, in the
\* order GIT_EDITOR, core.editor, VISUAL, EDITOR, "vi", that provides one.
C5_EditorPrecedence ==
    (pc = "run" /\ editorEnv # <<>>) => editor = HighestPrecedence(editorEnv[1])

\* C5 witness: GIT_EDITOR unset, no core.editor, VISUAL and EDITOR both set
C5_Witness ==
    /\ pc = "run"
    /\ editorEnv # <<>>
    /\ editorEnv[1].GIT_EDITOR = ""
    /\ ~editorEnv[1].cfg.hasEditor
    /\ editorEnv[1].VISUAL # ""
    /\ editorEnv[1].EDITOR # ""
    /\ editor = editorEnv[1].VISUAL

\* the names of the labels of the list whose id is not 0, in the list's order
RealLabelNames(list) ==
    LET real == SelectSeq(list, LAMBDA l : l.ID # 0)
    IN  [i \in 1..Len(real) |-> real[i].Name]

\* C6: the UpdateIssue call of setIssueLabelsMilestones adds exactly the names
\* of the passed labels whose id is not 0, in order, and carries a milestone
\* id exactly when the passed milestone's id is not 0; with the two sentinels
\* it adds no label and carries no milestone id.
C6_UpdatePayload ==
    updateCall # <<>> =>
        LET o == updateCall[1] IN
        /\ o.AddLabels = RealLabelNames(selectedLabels)
        /\ (o.MilestoneID # <<>>) <=> (selectedMilestone.ID # 0)
        /\ o.MilestoneID # <<>> => o.MilestoneID = <<selectedMilestone.ID>>
        /\ (selectedLabels = noLabels /\ selectedMilestone = noMilestone)
              => (o.AddLabels = <<>> /\ o.MilestoneID = <<>>)

\* C6 witness: the sentinel label ahead of a real one, with the sentinel milestone
C6_Witness ==
    /\ updateCall # <<>>
    /\ Len(selectedLabels) = 2
    /\ selectedLabels[1] = noLabels[1]
    /\ selectedLabels[2].ID # 0
    /\ selectedMilestone = noMilestone

\* C7: when the user cancels the milestone selector, the run goes on with the
\* sentinel milestone, and the UpdateIssue call carries no milestone id.
C7_CancelledMilestoneIsSentinel ==
    milestoneCancelled =>
        /\ selectedMilestone = noMilestone
        /\ updateCall # <<>> => updateCall[1].MilestoneID = <<>>

\* a step of getIssueTemplates failed
StepFailed(w) ==
    \/ w.lio.homeErr
    \/ w.lio.mkdirErr
    \/ w.lio.readDirErr
    \/ w.lio.readErrAt # 0
    \/ w.rio.listErr
    \/ w.rio.failAt # 0

\* C8: when any step of getIssueTemplates fails, it returns an error, and no
\* template is offered for selection.
C8_TemplatesFailClosed ==
    (world # <<>> /\ StepFailed(world[1])) =>
        /\ pc = "templatesReturned" => err # Nil
        /\ pc # "selectTemplate"

\* The same statement without the one step whose error is dropped, the
\* enumeration of the local directory: every other failure does abort.
TemplatesFailClosed_ButReadDir ==
    (world # <<>> /\ StepFailed(world[1]) /\ ~world[1].lio.readDirErr) =>
        /\ pc = "templatesReturned" => err # Nil
        /\ pc # "selectTemplate"

\* the templates of the .md files among names, each named by nameOf
TemplatesOf(names, nameOf(_)) ==
    LET md == SelectSeq(names, LAMBDA n : HasSuffix(n, MdSuffix))
    IN  [i \in 1..Len(md) |-> Template(nameOf(md[i]), FileContent(md[i]))]

\* the merged list the files of w should give
ExpectedTemplates(w) ==
    <<BlankTemplate>>
    \o TemplatesOf(w.dir, LAMBDA n : SubSeq(n, 1, Len(n) - Len(MdSuffix)) \o LocalTag)
    \o TemplatesOf([i \in 1..Len(w.nodes) |-> Base(w.nodes[i].Path)],
                   LAMBDA n : SubSeq(n, 1, Len(n) - Len(MdSuffix)))

\* C9: on success getIssueTemplates returns BLANK, then one "<name> [local]"
\* template per local .md file, then one "<name>" template per remote .md
\* entry, each source in its enumeration order.
C9_MergedOrder ==
    (pc = "templatesReturned" /\ err = Nil) => templates = ExpectedTemplates(world[1])

\* The same statement for the runs in which the local directory could be
\* enumerated, where it holds.
MergedOrder_Enumerated ==
    (pc = "templatesReturned" /\ err = Nil /\ ~world[1].lio.readDirErr)
        => templates = ExpectedTemplates(world[1])

\* the names of the list are pairwise different
UniqueNames(list) ==
    \A i, j \in 1..Len(list) : list[i].Name = list[j].Name => i = j

\* C10 as stated: the names of the merged list are unique, whatever the files.
C10_NamesUnique ==
    (pc = "templatesReturned" /\ err = Nil) => UniqueNames(templates)

\* a remote file name that yields the name of the synthetic template or a
\* name carrying the local tag
ClashingRemoteName(name) ==
    \/ name = BlankName \o MdSuffix
    \/ HasSuffix(name, LocalTag \o MdSuffix)

\* C10 as amended: the names of the merged list are unique when no remote .md
\* file is named "BLANK.md" or has a name ending in " [local].md".
C10_NamesUniqueWithoutClash ==
    (/\ pc = "templatesReturned"
     /\ err = Nil
     /\ \A i \in 1..Len(world[1].nodes) : ~ClashingRemoteName(Base(world[1].nodes[i].Path)))
        => UniqueNames(templates)

\* C10 witness: local a.md and remote a.md side by side, no clashing remote name
C10_Witness ==
    /\ pc = "templatesReturned"
    /\ err = Nil
    /\ \A i \in 1..Len(world[1].nodes) : ~ClashingRemoteName(Base(world[1].nodes[i].Path))
    /\ \E i, j \in 1..Len(templates) :
         /\ templates[i].Name = <<"a">> \o LocalTag
         /\ templates[j].Name = <<"a">>

\* the messages main can abort with once createIssueFromTemplate was entered
FatalAfterEditor == {"could not create issue", "could not add labels/milestones to issue"}

\* main is past the two selectors
PastSelectors == pc \in {"setIssue", "updateReturned", "done"} \/ updateCall # <<>>

\* C11: a failed label listing or milestone listing does not abort the run:
\* the list is empty, its selector is skipped, the run can only abort later
\* (in or after createIssueFromTemplate), and the UpdateIssue call adds no
\* label (failed label list) or carries no milestone id (failed milestone list).
C11_ListFailureTolerated ==
    /\ labelsFailed =>
          /\ labels = <<>>
          /\ pc = "fatal" => fatal \in FatalAfterEditor
          /\ PastSelectors => selectedLabels = noLabels
          /\ updateCall # <<>> => updateCall[1].AddLabels = <<>>
    /\ milestonesFailed =>
          /\ milestones = <<>>
          /\ pc = "fatal" => fatal \in FatalAfterEditor
          /\ PastSelectors => (selectedMilestone = noMilestone /\ ~milestoneCancelled)
          /\ updateCall # <<>> => updateCall[1].MilestoneID = <<>>

\* C11 witness: both listings failed, the issue was created and updated
C11_Witness ==
    /\ labelsFailed
    /\ milestonesFailed
    /\ issueCreated
    /\ updateCall # <<>>
    /\ pc = "done"

\* C12: when createIssueFromTemplate returns an error to main, no issue has
\* been created on the hosting service in that run.
C12_NoIssueOnError ==
    CreateFailed => ~issueCreated

\* The same statement apart from the error of os.Remove, where it holds:
\* every other error is returned before the issue exists.
NoIssueOnError_ButRemove ==
    (CreateFailed /\ ~(removeCalled /\ fileOnDisk)) => ~issueCreated

====
